---- MODULE Spec2Model ----
(***************************************************************************)
(* Model of the EulisT task backend (src/index.js): five HTTP routes over  *)
(* one Mongoose collection of tasks.  Each route handler is one action;    *)
(* the storage calls it makes (save, find, findById, findByIdAndUpdate,    *)
(* findByIdAndDelete) are part of the action.  Update semantics are those  *)
(* of Mongoose 6 and later: keys whose value is undefined are removed      *)
(* from the update document, setters (trim) and update validators          *)
(* (runValidators: true) run on the keys that remain.                      *)
(***************************************************************************)
EXTENDS Integers, Sequences, FiniteSets, TLC

VARIABLES
    tasks,      \* the documents of the Task collection
    nextId,     \* the _id the storage layer gives the next saved document
    now,        \* the server clock: new Date(), Date.now
    req,        \* the request being answered (NoRequest while the server waits)
    res,        \* the response to it
    before,     \* the collection as the handler found it
    removed     \* the ids findByIdAndDelete has removed so far

vars == <<tasks, nextId, now, req, res, before, removed>>

(* ------------------------------ bounds --------------------------------- *)

\* Number of documents the storage layer hands an _id to.
MaxId == 2
\* Last instant (in clock ticks) the server clock reaches.
MaxTime == 2

(* --------------------------- JSON body values -------------------------- *)

\* new Date(x) of a string that does not parse: Invalid Date (time value NaN).
NaN == -1

\* The id path parameter that is no ObjectId (findById throws CastError).
MalformedId == 0

Ids == 1..MaxId

IdParams == {MalformedId} \cup Ids

Undefined == [k |-> "undefined", v |-> <<>>]

Null == [k |-> "null", v |-> <<>>]

Str(s) == [k |-> "string", v |-> s]

\* Titles a body can carry: absent, null, "", " ", "a", " b ".
TitleValues ==
    {Undefined, Null, Str(<<>>), Str(<<" ">>), Str(<<"a">>), Str(<<" ", "b", " ">>)}

DateUndefined == [k |-> "undefined", v |-> 0]

\* The date strings a body carries, each named by the instant it parses to:
\* the first instant of the server clock (the current time at first, in the
\* past once the clock has advanced) and an instant after every instant the
\* clock reaches (always in the future).
DateStrings == {1, MaxTime + 1}

\* Dates a body can carry: absent, the number 0, a string that does not
\* parse, a string that parses to an instant.
DateValues ==
    {DateUndefined, [k |-> "number", v |-> 0], [k |-> "string", v |-> NaN]}
        \cup {[k |-> "string", v |-> t] : t \in DateStrings}

CompletedUndefined == [k |-> "undefined", v |-> FALSE]

CompletedValues ==
    {CompletedUndefined, [k |-> "boolean", v |-> TRUE], [k |-> "boolean", v |-> FALSE]}

(* ------------------------ JavaScript expressions ----------------------- *)

\* The title is not looked at.
TitleUnchecked(title) == FALSE

\* !title : undefined, null and "" are falsy; " " is not.
TitleFalsy(title) == title.k \in {"undefined", "null"} \/ Len(title.v) = 0

\* !date : undefined and the number 0 are falsy; every non-empty string is truthy.
DateFalsy(date) == date.k = "undefined" \/ (date.k = "number" /\ date.v = 0)

\* new Date(date)
NewDate(date) == date.v

\* taskDate < new Date() : a comparison with NaN is false.
DateBefore(taskDate, current) == taskDate # NaN /\ current # NaN /\ taskDate < current

(* ------------------------------ taskSchema ----------------------------- *)

RECURSIVE TrimStart(_)
TrimStart(s) == IF Len(s) > 0 /\ Head(s) = " " THEN TrimStart(Tail(s)) ELSE s

RECURSIVE TrimEnd(_)
TrimEnd(s) == IF Len(s) > 0 /\ s[Len(s)] = " " THEN TrimEnd(SubSeq(s, 1, Len(s) - 1)) ELSE s

\* No trim option.
trimNone(s) == s

\* title: { trim: true }
trim(s) == TrimEnd(TrimStart(s))

\* required looks at the value as supplied instead of the trimmed one.
titleRequiredUntrimmed(title) == title.k = "string" /\ Len(title.v) > 0

\* title: { required: true } on a cast value (null, or a string after trim)
titleRequired(title) == title.k = "string" /\ Len(trim(title.v)) > 0

\* date: { type: Date, required: true } : an Invalid Date does not cast
dateRequired(taskDate) == taskDate # NaN

\* completed: { default: false }
completedDefault == FALSE

\* createdAt: { default: Date.now }
createdAtDefault(current) == current

(* ------------------------------- responses ----------------------------- *)

NoRequest ==
    [op |-> "none", id |-> MalformedId, title |-> Undefined, date |-> DateUndefined,
     completed |-> CompletedUndefined]

Request(op, id, title, date, completed) ==
    [op |-> op, id |-> id, title |-> title, date |-> date, completed |-> completed]

\* status, the count field of the list envelope, the data field as a
\* sequence of records (one record for the single-task envelopes), and the
\* number of calls the handler made to the storage layer.
Response(status, data, calls) ==
    [status |-> status, count |-> Len(data), data |-> data, calls |-> calls]

NoResponse == Response(0, <<>>, 0)

(* ------------------------------ collection ----------------------------- *)

Task(id, title, date, createdAt, completed) ==
    [id |-> id, title |-> title, date |-> date, createdAt |-> createdAt,
     completed |-> completed]

\* Task.findById(id)
findById(ts, id) == {t \in ts : t.id = id}

\* .sort({ date: 1, createdAt: 1 })
sortOrderAscending(a, b) ==
    a.date < b.date \/ (a.date = b.date /\ a.createdAt <= b.createdAt)

\* .sort({ date: 1, createdAt: -1 }) : a may come before b
sortOrder(a, b) ==
    a.date < b.date \/ (a.date = b.date /\ a.createdAt >= b.createdAt)

\* Task.find().sort(...) : every arrangement of the collection the sort
\* allows (documents equal on both keys come in either order).
find(ts) ==
    {s \in [1..Cardinality(ts) -> ts] :
        /\ \A i, j \in 1..Cardinality(ts) : i # j => s[i] # s[j]
        /\ \A i, j \in 1..Cardinality(ts) : i < j => sortOrder(s[i], s[j])}

\* new Task({ title, date: taskDate }) : the setters and defaults of the schema
newTask(id, title, taskDate, current) ==
    Task(id, trim(title.v), taskDate, createdAtDefault(current), completedDefault)

\* newTask.save() runs the schema validators
saveValid(title, taskDate) == titleRequired(title) /\ dateRequired(taskDate)

\* newTask.save() : the collection once the document is inserted
save(ts, doc) == ts \cup {doc}

\* date: date ? new Date(date) : undefined
updateDate(date) ==
    IF DateFalsy(date) THEN DateUndefined ELSE [k |-> "date", v |-> NewDate(date)]

\* Casting and update validators on { title, date, completed } : undefined
\* keys are dropped, the others are cast and validated.
updateValid(title, ud) ==
    /\ title.k = "undefined" \/ titleRequired(title)
    /\ ud.k = "undefined" \/ dateRequired(ud.v)

\* The document is replaced: a key the body lacks falls back to its default.
applyUpdateReplace(t, title, ud, completed) ==
    Task(t.id,
         IF title.k = "undefined" THEN t.title ELSE trim(title.v),
         IF ud.k = "undefined" THEN t.date ELSE ud.v,
         t.createdAt,
         IF completed.k = "undefined" THEN completedDefault ELSE completed.v)

\* The update stamps the document with the current time.
applyUpdateTouch(t, title, ud, completed) ==
    Task(t.id,
         IF title.k = "undefined" THEN t.title ELSE trim(title.v),
         IF ud.k = "undefined" THEN t.date ELSE ud.v,
         now,
         IF completed.k = "undefined" THEN t.completed ELSE completed.v)

\* $set of the keys that are left, on the matched document
applyUpdate(t, title, ud, completed) ==
    Task(t.id,
         IF title.k = "undefined" THEN t.title ELSE trim(title.v),
         IF ud.k = "undefined" THEN t.date ELSE ud.v,
         t.createdAt,
         IF completed.k = "undefined" THEN t.completed ELSE completed.v)

\* { upsert: true } : a document is inserted when none matches.
findByIdAndUpdateUpsert(ts, id, title, ud, completed) ==
    IF \E t \in ts : t.id = id
    THEN {IF t.id = id
          THEN Task(t.id,
                    IF title.k = "undefined" THEN t.title ELSE trim(title.v),
                    IF ud.k = "undefined" THEN t.date ELSE ud.v,
                    t.createdAt,
                    IF completed.k = "undefined" THEN t.completed ELSE completed.v)
          ELSE t : t \in ts}
    ELSE ts \cup {Task(id, trim(title.v), ud.v, now,
                       IF completed.k = "undefined" THEN FALSE ELSE completed.v)}

\* Task.findByIdAndUpdate(id, update, { new: true, runValidators: true }) :
\* the collection afterwards (no upsert)
findByIdAndUpdate(ts, id, title, ud, completed) ==
    {IF t.id = id THEN applyUpdate(t, title, ud, completed) ELSE t : t \in ts}

\* Task.deleteMany() : every document goes.
findByIdAndDeleteAll(ts, id) == {}

\* Task.findByIdAndDelete(id) : the collection afterwards
findByIdAndDelete(ts, id) == {t \in ts : t.id # id}

(* -------------------------------- state -------------------------------- *)

Init ==
    /\ tasks = {}
    /\ nextId = 1
    /\ now = 1
    /\ req = NoRequest
    /\ res = NoResponse
    /\ before = {}
    /\ removed = {}

\* No request is being answered.
Idle == req = NoRequest

\* The server clock advances while the server waits for a request.
Tick ==
    /\ Idle
    /\ now < MaxTime
    /\ now' = now + 1
    /\ UNCHANGED <<tasks, nextId, req, res, before, removed>>

\* The response has been sent: the server waits for the next request.
Listen ==
    /\ ~Idle
    /\ req' = NoRequest
    /\ res' = NoResponse
    /\ before' = tasks
    /\ UNCHANGED <<tasks, nextId, now, removed>>

\* Every handler answers one request and leaves the clock alone.
Answer(r, status, data, calls) ==
    /\ req' = r
    /\ res' = Response(status, data, calls)
    /\ before' = tasks
    /\ now' = now

(* ------------------------------- handlers ------------------------------ *)

\* GET /tasks
GetTasks ==
    \E s \in find(tasks) :
        /\ Answer(Request("list", MalformedId, Undefined, DateUndefined, CompletedUndefined),
                  200, s, 1)
        /\ UNCHANGED <<tasks, nextId, removed>>

\* GET /tasks/:id
GetTask(id) ==
    LET r == Request("get", id, Undefined, DateUndefined, CompletedUndefined)
        task == findById(tasks, id)
    IN
    /\ UNCHANGED <<tasks, nextId, removed>>
    /\ IF id = MalformedId
       THEN Answer(r, 500, <<>>, 1)
       ELSE IF task = {}
            THEN Answer(r, 404, <<>>, 1)
            ELSE \E t \in task : Answer(r, 200, <<t>>, 1)

\* POST /tasks
PostTask(title, date) ==
    LET r == Request("create", MalformedId, title, date, CompletedUndefined)
        taskDate == NewDate(date)
        doc == newTask(nextId, title, taskDate, now)
    IN
    IF TitleFalsy(title) \/ DateFalsy(date)
    THEN Answer(r, 400, <<>>, 0) /\ UNCHANGED <<tasks, nextId, removed>>
    ELSE IF DateBefore(taskDate, now)
         THEN Answer(r, 400, <<>>, 0) /\ UNCHANGED <<tasks, nextId, removed>>
         ELSE IF ~saveValid(title, taskDate)
              THEN Answer(r, 500, <<>>, 1) /\ UNCHANGED <<tasks, nextId, removed>>
              ELSE /\ nextId <= MaxId
                   /\ tasks' = save(tasks, doc)
                   /\ nextId' = nextId + 1
                   /\ Answer(r, 201, <<doc>>, 1)
                   /\ UNCHANGED removed

\* PUT /tasks/:id
PutTask(id, title, date, completed) ==
    LET r == Request("update", id, title, date, completed)
        ud == updateDate(date)
        updated == findByIdAndUpdate(tasks, id, title, ud, completed)
        updatedTask == findById(updated, id)
    IN
    IF ~DateFalsy(date) /\ DateBefore(NewDate(date), now)
    THEN Answer(r, 400, <<>>, 0) /\ UNCHANGED <<tasks, nextId, removed>>
    ELSE IF id = MalformedId \/ ~updateValid(title, ud)
         THEN Answer(r, 500, <<>>, 1) /\ UNCHANGED <<tasks, nextId, removed>>
         ELSE /\ tasks' = updated
              /\ UNCHANGED <<nextId, removed>>
              /\ IF updatedTask = {}
                 THEN Answer(r, 404, <<>>, 1)
                 ELSE \E t \in updatedTask : Answer(r, 200, <<t>>, 1)

\* DELETE /tasks/:id
DeleteTask(id) ==
    LET r == Request("delete", id, Undefined, DateUndefined, CompletedUndefined)
        deletedTask == findById(tasks, id)
    IN
    IF id = MalformedId
    THEN Answer(r, 500, <<>>, 1) /\ UNCHANGED <<tasks, nextId, removed>>
    ELSE /\ tasks' = findByIdAndDelete(tasks, id)
         /\ UNCHANGED nextId
         /\ IF deletedTask = {}
            THEN Answer(r, 404, <<>>, 1) /\ UNCHANGED removed
            ELSE /\ removed' = removed \cup {id}
                 /\ \E t \in deletedTask :
                       Answer(r, 200, <<[id |-> t.id, title |-> t.title]>>, 1)

Next ==
    \/ Tick
    \/ Listen
    \/ Idle /\ GetTasks
    \/ Idle /\ \E id \in IdParams : GetTask(id)
    \/ Idle /\ \E title \in TitleValues, date \in DateValues : PostTask(title, date)
    \/ Idle /\ \E id \in IdParams, title \in TitleValues, date \in DateValues,
                  completed \in CompletedValues : PutTask(id, title, date, completed)
    \/ Idle /\ \E id \in IdParams : DeleteTask(id)

Spec == Init /\ [][Next]_vars

(* ----------------------- vocabulary of the properties ------------------ *)

IdsOf(ts) == {t.id : t \in ts}

\* r is s without its leading and trailing spaces.
IsTrimOf(r, s) ==
    \E i \in 1..(Len(s) + 1), j \in 0..Len(s) :
        /\ r = SubSeq(s, i, j)
        /\ \A k \in 1..(i - 1) : s[k] = " "
        /\ \A k \in (j + 1)..Len(s) : s[k] = " "
        /\ Len(r) > 0 => (r[1] # " " /\ r[Len(r)] # " ")

\* The body carries a title: a non-empty string.
TitlePresent(title) == title.k = "string" /\ Len(title.v) > 0

\* The body carries a title that is not empty once trimmed.
TitleNonBlank(title) ==
    title.k = "string" /\ \E i \in 1..Len(title.v) : title.v[i] # " "

\* The body carries a title of spaces only.
TitleSpacesOnly(title) == TitlePresent(title) /\ ~TitleNonBlank(title)

DateAbsent(date) == date.k = "undefined"

\* The body carries a date that parses.
DateParses(date) == date.k = "string" /\ date.v # NaN

\* ... to an instant later than the current time
DateFuture(date) == DateParses(date) /\ date.v > now

\* ... to an instant earlier than the current time
DatePast(date) == DateParses(date) /\ date.v < now

\* ... to an instant not later than the current time
DateNotFuture(date) == DateParses(date) /\ date.v <= now

Unchanged == tasks = before

(* --------------------------------- C1 ---------------------------------- *)

\* C1 as stated: a create whose title is present and whose date is later than
\* the current time responds 201 and persists exactly one new task, whose
\* title is the supplied title, whose date is the supplied date, whose
\* completed is false and whose id and createdAt are populated; a get-by-id
\* on a stored id responds 200 with the stored record.
C1_AsStated ==
    /\ (req.op = "create" /\ TitlePresent(req.title) /\ DateFuture(req.date)) =>
          /\ res.status = 201
          /\ \E t \in tasks :
                /\ t.id \notin IdsOf(before)
                /\ tasks = before \cup {t}
                /\ res.data = <<t>>
                /\ t.title = req.title.v
                /\ t.date = req.date.v
                /\ t.completed = FALSE
                /\ t.id \in Ids
                /\ t.createdAt = now
    /\ (req.op = "get" /\ req.id \in IdsOf(tasks)) =>
          /\ res.status = 200
          /\ Unchanged
          /\ \E t \in tasks : t.id = req.id /\ res.data = <<t>>

\* C1 amended: the same for a create whose title is not empty once trimmed;
\* the stored title is the supplied title without its leading and trailing
\* spaces.
C1_CreateThenGet ==
    /\ (req.op = "create" /\ TitleNonBlank(req.title) /\ DateFuture(req.date)) =>
          /\ res.status = 201
          /\ \E t \in tasks :
                /\ t.id \notin IdsOf(before)
                /\ tasks = before \cup {t}
                /\ res.data = <<t>>
                /\ IsTrimOf(t.title, req.title.v)
                /\ t.date = req.date.v
                /\ t.completed = FALSE
                /\ t.id \in Ids
                /\ t.createdAt = now
    /\ (req.op = "get" /\ req.id \in IdsOf(tasks)) =>
          /\ res.status = 200
          /\ Unchanged
          /\ \E t \in tasks : t.id = req.id /\ res.data = <<t>>

\* A create of " b " with a future date has been answered 201.
C1_Witness ==
    /\ req.op = "create"
    /\ req.title = Str(<<" ", "b", " ">>)
    /\ DateFuture(req.date)
    /\ res.status = 201
    /\ before # {}

(* --------------------------------- C2 ---------------------------------- *)

\* C2: a create whose parsed date is not strictly after the current time
\* responds 400 and the collection is the same after as before.
C2_NotFutureRejected ==
    (req.op = "create" /\ DateNotFuture(req.date)) =>
        (res.status = 400 /\ Unchanged)

(* --------------------------------- C3 ---------------------------------- *)

\* C3: a create whose title is missing or whose date is missing responds
\* 400, issues no storage operation and leaves the collection unchanged.
C3_MissingFieldRejected ==
    (req.op = "create" /\ (req.title.k = "undefined" \/ DateAbsent(req.date))) =>
        (res.status = 400 /\ res.calls = 0 /\ Unchanged)

\* A create that lacks only its title has been answered, with tasks stored.
C3_Witness ==
    /\ req.op = "create"
    /\ req.title.k = "undefined"
    /\ DateFuture(req.date)
    /\ res.status = 400
    /\ tasks # {}

(* --------------------------------- C4 ---------------------------------- *)

\* C4: list responds 200 with count the number of stored tasks and data
\* holding every stored task exactly once, by ascending date and, among
\* tasks of one date, by descending createdAt.
C4_ListSorted ==
    req.op = "list" =>
        /\ res.status = 200
        /\ Unchanged
        /\ res.count = Cardinality(tasks)
        /\ Len(res.data) = res.count
        /\ {res.data[i] : i \in 1..Len(res.data)} = tasks
        /\ \A i, j \in 1..Len(res.data) :
              i < j =>
                 /\ res.data[i].date <= res.data[j].date
                 /\ res.data[i].date = res.data[j].date =>
                       res.data[i].createdAt >= res.data[j].createdAt

\* A list of two tasks of one date, created at different instants.
C4_Witness ==
    /\ req.op = "list"
    /\ Len(res.data) = 2
    /\ res.data[1].date = res.data[2].date
    /\ res.data[1].createdAt > res.data[2].createdAt

(* --------------------------------- C5 ---------------------------------- *)

\* C5: a successful update of an existing task applies only the fields the
\* body supplies and leaves every other field as stored (an update of
\* completed alone leaves title and date as they were); no other task of
\* the collection changes.
C5_PartialUpdate ==
    (req.op = "update" /\ res.status = 200) =>
        \E old \in before, new \in tasks :
            /\ old.id = req.id
            /\ new.id = req.id
            /\ tasks \ {new} = before \ {old}
            /\ res.data = <<new>>
            /\ new.createdAt = old.createdAt
            /\ IF req.title.k = "undefined"
               THEN new.title = old.title
               ELSE req.title.k = "string" /\ IsTrimOf(new.title, req.title.v)
            /\ IF req.date.k = "string"
               THEN new.date = req.date.v
               ELSE new.date = old.date
            /\ IF req.completed.k = "undefined"
               THEN new.completed = old.completed
               ELSE new.completed = req.completed.v

\* An update of completed alone has set it on one of two stored tasks.
C5_Witness ==
    /\ req.op = "update"
    /\ res.status = 200
    /\ req.title.k = "undefined"
    /\ req.date.k = "undefined"
    /\ req.completed = [k |-> "boolean", v |-> TRUE]
    /\ Cardinality(tasks) = 2
    /\ \E old \in before : old.id = req.id /\ ~old.completed
    /\ \E new \in tasks : new.id = req.id /\ new.completed

(* --------------------------------- C6 ---------------------------------- *)

\* C6: an update whose body supplies a date that is not strictly in the
\* future responds 400 and leaves the collection unchanged, whatever else
\* the body supplies and whether or not the id matches a task (stated here
\* for the updates addressed to a stored task).
C6_NotFutureRejected ==
    (req.op = "update" /\ DateNotFuture(req.date) /\ req.id \in IdsOf(before)) =>
        (res.status = 400 /\ Unchanged)

(* --------------------------------- C7 ---------------------------------- *)

\* C7 as stated: an update with no date or a future date, addressed to an id
\* that matches no stored task, responds 404 and leaves the collection
\* unchanged.
C7_AsStated ==
    (/\ req.op = "update"
     /\ req.id \in Ids \ IdsOf(before)
     /\ DateAbsent(req.date) \/ DateFuture(req.date)) =>
        (res.status = 404 /\ Unchanged)

\* C7 amended: the same for an update that supplies no title or a title that
\* is not empty once trimmed; and no update addressed to an id that matches
\* no stored task changes the collection, whatever it responds.
C7_UnknownIdUpdate ==
    /\ (/\ req.op = "update"
        /\ req.id \in Ids \ IdsOf(before)
        /\ DateAbsent(req.date) \/ DateFuture(req.date)
        /\ req.title.k = "undefined" \/ TitleNonBlank(req.title)) =>
           (res.status = 404 /\ Unchanged)
    /\ (req.op = "update" /\ req.id \notin IdsOf(before)) =>
           (res.status # 200 /\ Unchanged)

\* An update with a title, a future date and completed has been answered 404
\* while another task is stored.
C7_Witness ==
    /\ req.op = "update"
    /\ res.status = 404
    /\ TitleNonBlank(req.title)
    /\ DateFuture(req.date)
    /\ req.completed.k = "boolean"
    /\ tasks # {}

(* --------------------------------- C8 ---------------------------------- *)

\* Delete of a stored task: 200 with its id and title, exactly that task gone.
DeleteRemovesOne ==
    (req.op = "delete" /\ req.id \in IdsOf(before)) =>
        /\ res.status = 200
        /\ \E t \in before :
              /\ t.id = req.id
              /\ res.data = <<[id |-> t.id, title |-> t.title]>>
              /\ tasks = before \ {t}

\* Delete of a well-formed id that matches no task: 404, nothing changes.
DeleteUnknown ==
    (req.op = "delete" /\ req.id \in Ids \ IdsOf(before)) =>
        (res.status = 404 /\ Unchanged)

\* A removed id never names a stored task again.
RemovedStaysRemoved == removed \cap IdsOf(tasks) = {}

\* The request is addressed to an id removed by an earlier delete.
OnRemovedId ==
    /\ req.op \in {"get", "update", "delete"}
    /\ req.id \in removed
    /\ req.id \notin IdsOf(before)

\* C8 as stated: delete of a stored task responds 200 with its id and title
\* and removes exactly that task; every later get-by-id, update or delete
\* on that id responds 404; delete of an id that matches no task responds
\* 404 and leaves the collection unchanged.  (The later updates are those
\* that carry no title and no date or a date that parses.)
C8_AsStated ==
    /\ DeleteRemovesOne
    /\ DeleteUnknown
    /\ RemovedStaysRemoved
    /\ (/\ OnRemovedId
        /\ req.op = "update" =>
              /\ req.title.k = "undefined"
              /\ DateAbsent(req.date) \/ DateParses(req.date)) =>
           res.status = 404

\* C8 amended: every later get-by-id or delete on that id responds 404, and
\* every later update on it responds 404 unless its body is refused first
\* (400 for a date in the past, 500 for a title that is null or empty once
\* trimmed or a date that does not parse); none responds 200 and none
\* changes the collection.
C8_DeleteThenGone ==
    /\ DeleteRemovesOne
    /\ DeleteUnknown
    /\ RemovedStaysRemoved
    /\ OnRemovedId =>
          /\ Unchanged
          /\ IF req.op = "update" /\ DatePast(req.date)
             THEN res.status = 400
             ELSE IF /\ req.op = "update"
                     /\ \/ req.title.k = "null"
                        \/ (req.title.k = "string" /\ ~TitleNonBlank(req.title))
                        \/ (req.date.k = "string" /\ req.date.v = NaN)
                  THEN res.status = 500
                  ELSE res.status = 404

\* A get-by-id on a removed id has been answered while a task is stored.
C8_Witness ==
    /\ req.op = "get"
    /\ req.id \in removed
    /\ res.status = 404
    /\ tasks # {}

(* --------------------------------- C9 ---------------------------------- *)

\* C9: the id and createdAt a task got at creation never change while the
\* task exists, whatever requests are answered; the ids of distinct stored
\* tasks are distinct (and a new task never takes the id of another task,
\* stored or removed).
C9_IdAndCreatedAtStable ==
    /\ \A t, u \in tasks : t.id = u.id => t = u
    /\ \A t \in before, u \in tasks : t.id = u.id => t.createdAt = u.createdAt
    /\ req.op \notin {"create", "delete"} => IdsOf(tasks) = IdsOf(before)
    /\ req.op = "delete" => IdsOf(tasks) \subseteq IdsOf(before)
    /\ req.op = "create" =>
          /\ IdsOf(before) \subseteq IdsOf(tasks)
          /\ \A t \in tasks \ before : t.id \notin IdsOf(before) \cup removed

\* An update has changed a task created at an earlier instant, with another
\* task stored.
C9_Witness ==
    /\ req.op = "update"
    /\ res.status = 200
    /\ tasks # before
    /\ Cardinality(tasks) = 2
    /\ \E t \in tasks : t.id = req.id /\ t.createdAt < now

(* --------------------------------- C10 --------------------------------- *)

\* Every stored task has a title that is not empty once trimmed, and a date.
StoredTasksValid ==
    \A t \in tasks :
        /\ \E i \in 1..Len(t.title) : t.title[i] # " "
        /\ t.date # NaN
        /\ t.date \in Nat

\* A create whose title is spaces only, or an update whose title is null,
\* empty or spaces only.
InvalidTitleRequest ==
    \/ req.op = "create" /\ TitleSpacesOnly(req.title)
    \/ /\ req.op = "update"
       /\ req.title.k = "null" \/ (req.title.k = "string" /\ ~TitleNonBlank(req.title))

\* C10 as stated: every stored task has a title that is not empty once
\* trimmed and has a date; a create whose title is spaces only and an update
\* whose title is null, empty or spaces only fail with 500 and change
\* nothing.
C10_AsStated ==
    /\ StoredTasksValid
    /\ InvalidTitleRequest => (res.status = 500 /\ Unchanged)

\* C10 amended: such a request fails with 500, or with 400 when the date
\* check refuses it first (a create without a date, a date in the past), and
\* changes nothing.
C10_TitleAndDateInvariant ==
    /\ StoredTasksValid
    /\ InvalidTitleRequest =>
          /\ Unchanged
          /\ IF \/ DatePast(req.date)
                \/ req.op = "create" /\ (DateAbsent(req.date) \/ req.date.k = "number")
             THEN res.status = 400
             ELSE res.status = 500

\* An update of a stored task to a null title, with no date, was refused.
C10_Witness ==
    /\ req.op = "update"
    /\ req.title = Null
    /\ DateAbsent(req.date)
    /\ req.id \in IdsOf(before)
    /\ res.status = 500

====
